---- MODULE Spec2Model ----
(***************************************************************************)
(* Model of the metrics aggregation pipeline (linear_client.py), the       *)
(* entity store (database.py) and the Monte Carlo forecasting engine with  *)
(* its accuracy tracker (forecasting.py).                                  *)
(*                                                                         *)
(* Time is counted in ticks, DayLen ticks to the calendar day.  A NULL     *)
(* column is 0; every timestamp and every identifier differs from it.      *)
(* A table with an autoincrement primary key is a sequence of rows in      *)
(* rowid order: Session.merge of an object without primary key INSERTs.    *)
(***************************************************************************)
EXTENDS Integers, Sequences, FiniteSets, TLC

VARIABLES
    remote,           \* what the issue tracker's API answers (environment)
    users,            \* table users            (primary key id)
    cycles,           \* table cycles           (primary key id)
    issues,           \* table issues           (primary key id)
    capacities,       \* table cycle_capacities (autoincrement id)
    blocked_periods,  \* table blocked_periods  (autoincrement id)
    daily_metrics,    \* table daily_metrics    (autoincrement id)
    cycle_metrics,    \* table cycle_metrics    (autoincrement id)
    user_metrics,     \* table user_metrics     (autoincrement id)
    forecasts,        \* table monte_carlo_forecasts (autoincrement id)
    now,              \* datetime.now(), in ticks
    result            \* outcome of the last operation (return value or raise)

vars == <<remote, users, cycles, issues, capacities, blocked_periods,
          daily_metrics, cycle_metrics, user_metrics, forecasts, now, result>>

rawVars == <<users, cycles, issues, capacities>>
derivedVars == <<daily_metrics, cycle_metrics, user_metrics>>

----------------------------------------------------------------------------
(* Bounds of the model *)

MaxPeriods == 3      \* rows of blocked_periods explored
MaxTime == 3         \* history timestamps 1..MaxTime (ticks)

----------------------------------------------------------------------------
(* Values *)

NULL == 0
DayLen == 3600

NoResult == [op |-> "none"]

Min(S) == CHOOSE x \in S : \A y \in S : x <= y
Max(S) == CHOOSE x \in S : \A y \in S : x >= y

RECURSIVE SumSeq(_)
SumSeq(s) == IF s = <<>> THEN 0 ELSE Head(s) + SumSeq(Tail(s))

----------------------------------------------------------------------------
(* sync_issues: the blocked periods kept from an issue's history *)

StateTypes == {"started", "blocked", "completed"}
NoState == "none"     \* fromState / toState absent in the history node

HistoryNodes ==
    [fromState : StateTypes \cup {NoState},
     toState   : StateTypes \cup {NoState},
     createdAt : 1..MaxTime]

OpenPeriods(bp, issue_id) ==
    {k \in DOMAIN bp : bp[k].issue_id = issue_id /\ bp[k].end_time = NULL}

\* Query.first() without ORDER BY: SQLite scans the table in rowid order
FirstRow(S) == Min(S)

\* the body of the loop over issue_data['history']['nodes']
TrackBlockedPeriods(bp, issue_id, h) ==
    IF h.fromState = NoState \/ h.toState = NoState THEN bp
    ELSE IF h.toState = "blocked"
         THEN Append(bp, [issue_id   |-> issue_id,
                          start_time |-> h.createdAt,
                          end_time   |-> NULL])
    ELSE IF h.fromState = "blocked" /\ h.toState # "blocked"
         THEN IF OpenPeriods(bp, issue_id) = {} THEN bp
              ELSE [bp EXCEPT ![FirstRow(OpenPeriods(bp, issue_id))].end_time
                                   = h.createdAt]
    ELSE bp

RECURSIVE TrackHistory(_, _, _)
TrackHistory(bp, issue_id, hist) ==
    IF hist = <<>> THEN bp
    ELSE TrackHistory(TrackBlockedPeriods(bp, issue_id, Head(hist)),
                      issue_id, Tail(hist))

IssueIds == {"i1", "i2"}

\* sync_issues answering one history node of one issue
SyncIssueHistory(issue_id, h) ==
    /\ Len(blocked_periods) < MaxPeriods
    /\ blocked_periods' = TrackBlockedPeriods(blocked_periods, issue_id, h)
    /\ result' = [op |-> "sync_issues", issue_id |-> issue_id, node |-> h]
    /\ UNCHANGED <<remote, rawVars, derivedVars, forecasts, now>>

EmptyRemote == [users |-> <<>>, cycles |-> <<>>, members |-> <<>>, issues |-> <<>>]

InitBlocked ==
    /\ remote = EmptyRemote
    /\ users = <<>> /\ cycles = <<>> /\ issues = <<>> /\ capacities = <<>>
    /\ blocked_periods = <<>>
    /\ daily_metrics = <<>> /\ cycle_metrics = <<>> /\ user_metrics = <<>>
    /\ forecasts = <<>>
    /\ now = DayLen
    /\ result = NoResult

NextBlocked ==
    \E issue_id \in IssueIds, h \in HistoryNodes : SyncIssueHistory(issue_id, h)

SpecBlocked == InitBlocked /\ [][NextBlocked]_vars

----------------------------------------------------------------------------
(* Numbers: a float that is a quotient is kept exact, as a reduced fraction *)

Abs(x) == IF x < 0 THEN 0 - x ELSE x

RECURSIVE GCD(_, _)
GCD(a, b) == IF b = 0 THEN a ELSE GCD(b, a % b)

\* n / d with d > 0
Rat(n, d) == LET g == GCD(Abs(n), d) IN <<n \div g, d \div g>>

\* timedelta.total_seconds() / 3600 of a sum of tick differences, over count
Hours(ticks, count) == Rat(24 * ticks, DayLen * count)

----------------------------------------------------------------------------
(* The entity store: Session.merge *)

NoName == ""     \* NULL of a string column

\* merge of an object whose primary key is set: replace the row or insert it
Upsert(table, row) ==
    IF \E k \in DOMAIN table : table[k].id = row.id
    THEN [k \in DOMAIN table |-> IF table[k].id = row.id THEN row ELSE table[k]]
    ELSE Append(table, row)

RECURSIVE UpsertAll(_, _)
UpsertAll(table, rows) ==
    IF rows = <<>> THEN table
    ELSE UpsertAll(Upsert(table, Head(rows)), Tail(rows))

\* merge of objects whose autoincrement id is unset: every one is an INSERT
InsertAll(table, rows) == table \o rows

RECURSIVE Flatten(_)
Flatten(ss) == IF ss = <<>> THEN <<>> ELSE Head(ss) \o Flatten(Tail(ss))

----------------------------------------------------------------------------
(* sync_users, sync_cycles, sync_issues *)

DefaultCapacityHours == 32
DefaultCapacityPoints == 10

sync_users(tbl, resp) ==
    UpsertAll(tbl, [k \in DOMAIN resp.users |-> [id |-> resp.users[k]]])

sync_cycles(tbl, resp) == UpsertAll(tbl, resp.cycles)

\* one CycleCapacity per cycle of the team and member of the team
CapacityRows(resp) ==
    Flatten([c \in DOMAIN resp.cycles |->
               [m \in DOMAIN resp.members |->
                  [cycle_id        |-> resp.cycles[c].id,
                   user_id         |-> resp.members[m],
                   capacity_hours  |-> DefaultCapacityHours,
                   capacity_points |-> DefaultCapacityPoints]]])

IssueRow(d) ==
    [id |-> d.id, estimate |-> d.estimate,
     ideal_hours |-> 0, actual_hours |-> 0,
     created_at |-> d.created_at, started_at |-> d.started_at,
     completed_at |-> d.completed_at,
     cycle_id |-> d.cycle_id, assignee_id |-> d.assignee_id,
     team_id |-> d.team_id, team_name |-> d.team_name,
     project_id |-> d.project_id, project_name |-> d.project_name,
     initiative |-> d.initiative]

sync_issues(tbl, resp) ==
    UpsertAll(tbl, [k \in DOMAIN resp.issues |-> IssueRow(resp.issues[k])])

RECURSIVE sync_issue_histories(_, _)
sync_issue_histories(bp, issue_data) ==
    IF issue_data = <<>> THEN bp
    ELSE sync_issue_histories(
             TrackHistory(bp, Head(issue_data).id, Head(issue_data).history),
             Tail(issue_data))

----------------------------------------------------------------------------
(* sync_daily_metrics *)

\* cycle.issues: the issues of the cycle, in rowid order
CycleIssues(iss, cycle_id) == SelectSeq(iss, LAMBDA i : i.cycle_id = cycle_id)

IssuePeriods(bp, issue_id) == SelectSeq(bp, LAMBDA b : b.issue_id = issue_id)

Estimate(i) == IF i.estimate = NULL THEN 0 ELSE i.estimate
IdealHours(i) == IF i.ideal_hours = NULL THEN 0 ELSE i.ideal_hours
ActualHours(i) == IF i.actual_hours = NULL THEN 0 ELSE i.actual_hours

Date(t) == t \div DayLen

\* the loop left before the day that equals its bound
RECURSIVE CycleDaysBeforeLast(_, _)
CycleDaysBeforeLast(current_date, last) ==
    IF current_date < last
    THEN <<current_date>> \o CycleDaysBeforeLast(current_date + DayLen, last)
    ELSE <<>>

\* the values current_date takes in the while loop of one cycle
RECURSIVE CycleDays(_, _)
CycleDays(current_date, last) ==
    IF current_date <= last
    THEN <<current_date>> \o CycleDays(current_date + DayLen, last)
    ELSE <<>>

\* the issues completed by current_date taken for the open ones
DoneAt(i, current_date) ==
    i.completed_at # NULL /\ i.completed_at <= current_date

NotDoneAt(i, current_date) ==
    i.completed_at = NULL \/ i.completed_at > current_date

DailyRow(cycle, current_date, iss, bp) ==
    LET cis == CycleIssues(iss, cycle.id)
        IsBlocked(i) ==
            \E k \in DOMAIN bp :
                /\ bp[k].issue_id = i.id
                /\ bp[k].start_time <= current_date
                /\ (bp[k].end_time = NULL \/ bp[k].end_time > current_date)
        done == SelectSeq(cis, LAMBDA i :
                    i.completed_at # NULL
                    /\ Date(i.completed_at) <= Date(current_date))
        open == SelectSeq(cis, LAMBDA i : NotDoneAt(i, current_date))
    IN  [cycle_id |-> cycle.id,
         date |-> current_date,
         remaining_hours |-> SumSeq([k \in DOMAIN open |-> IdealHours(open[k])]),
         completed_points |-> SumSeq([k \in DOMAIN done |-> Estimate(done[k])]),
         wip_count |-> Len(SelectSeq(cis, LAMBDA i :
                            i.started_at # NULL /\ i.started_at <= current_date
                            /\ NotDoneAt(i, current_date))),
         blocked_items |-> Len(SelectSeq(cis, IsBlocked))]

\* the figures of the first day of the cycle carried to its later days
DailyRowsOfFirstDay(cyc, iss, bp, t) ==
    Flatten([c \in DOMAIN cyc |->
        LET days == CycleDays(cyc[c].start_date,
                              Min({cyc[c].end_date, t}))
        IN  [d \in DOMAIN days |->
                [DailyRow(cyc[c], days[1], iss, bp) EXCEPT !.date = days[d]]]])

DailyRows(cyc, iss, bp, t) ==
    Flatten([c \in DOMAIN cyc |->
        LET days == CycleDays(cyc[c].start_date,
                              Min({cyc[c].end_date, t}))
        IN  [d \in DOMAIN days |-> DailyRow(cyc[c], days[d], iss, bp)]])

sync_daily_metrics(tbl, cyc, iss, bp, t) ==
    InsertAll(tbl, DailyRows(cyc, iss, bp, t))

----------------------------------------------------------------------------
(* _calculate_cycle_metrics *)

\* max(counts.items(), key=count)[0]: the value counted most often, the one
\* seen first among equals (dict order); NoName when nothing is counted
MostCommon(vals) ==
    LET keys == {vals[k] : k \in DOMAIN vals} \ {NoName}
        Count(v) == Cardinality({k \in DOMAIN vals : vals[k] = v})
        First(v) == Min({k \in DOMAIN vals : vals[k] = v})
    IN  IF keys = {} THEN NoName
        ELSE CHOOSE v \in keys : \A w \in keys :
                 \/ Count(v) > Count(w)
                 \/ (Count(v) = Count(w) /\ First(v) <= First(w))

\* next((i.<id> for i in issues if i.<name> == name), None)
FirstIdOf(names, ids, name) ==
    IF \E k \in DOMAIN names : names[k] = name
    THEN ids[Min({k \in DOMAIN names : names[k] = name})]
    ELSE NoName

\* sum(...) / len(...) if ... else 0, of hour values
AvgHours(tickSeq) ==
    IF tickSeq = <<>> THEN Rat(0, 1) ELSE Hours(SumSeq(tickSeq), Len(tickSeq))

BlockedTicks(bp, issue_id, t) ==
    LET ps == IssuePeriods(bp, issue_id)
    IN  SumSeq([k \in DOMAIN ps |->
                  (IF ps[k].end_time = NULL THEN t ELSE ps[k].end_time)
                      - ps[k].start_time])

\* a completed issue without a start counted with a cycle time of zero
CycleTimesZeroWhenUnstarted(completed_issues) ==
    [k \in DOMAIN completed_issues |->
        IF completed_issues[k].started_at = NULL THEN 0
        ELSE completed_issues[k].completed_at - completed_issues[k].started_at]

\* cycle_times: one entry for each completed issue that has started_at
CycleTimes(completed_issues) ==
    LET with_start == SelectSeq(completed_issues, LAMBDA i : i.started_at # NULL)
    IN  [k \in DOMAIN with_start |->
            with_start[k].completed_at - with_start[k].started_at]

\* lead_times: one entry for each completed issue that has created_at
LeadTimes(completed_issues) ==
    LET with_created == SelectSeq(completed_issues, LAMBDA i : i.created_at # NULL)
    IN  [k \in DOMAIN with_created |->
            with_created[k].completed_at - with_created[k].created_at]

\* every issue of the cycle counted as completed
CompletedIssuesAll(cis) == cis

\* [i for i in issues if i.completed_at]
CompletedIssues(cis) == SelectSeq(cis, LAMBDA i : i.completed_at # NULL)

CycleMetricsRow(cycle, iss, bp, t) ==
    LET cis == CycleIssues(iss, cycle.id)
        completed_issues == CompletedIssues(cis)
        cycle_times == CycleTimes(completed_issues)
        lead_times == LeadTimes(completed_issues)
        blocked_times == [k \in DOMAIN completed_issues |->
                           BlockedTicks(bp, completed_issues[k].id, t)]
        completed_points ==
            SumSeq([k \in DOMAIN completed_issues |-> Estimate(completed_issues[k])])
        team_names == [k \in DOMAIN cis |-> cis[k].team_name]
        project_names == [k \in DOMAIN cis |-> cis[k].project_name]
        team_name == MostCommon(team_names)
        project_name == MostCommon(project_names)
    IN  [cycle_id |-> cycle.id,
         total_story_points |-> SumSeq([k \in DOMAIN cis |-> Estimate(cis[k])]),
         completed_story_points |-> completed_points,
         avg_cycle_time |-> AvgHours(cycle_times),
         avg_lead_time |-> AvgHours(lead_times),
         throughput |-> Len(completed_issues),
         velocity |-> completed_points,
         avg_blocked_time |-> AvgHours(blocked_times),
         start_date |-> cycle.start_date,
         end_date |-> cycle.end_date,
         team_id |-> FirstIdOf(team_names,
                               [k \in DOMAIN cis |-> cis[k].team_id], team_name),
         team_name |-> team_name,
         project_id |-> FirstIdOf(project_names,
                               [k \in DOMAIN cis |-> cis[k].project_id], project_name),
         project_name |-> project_name,
         initiative |-> MostCommon([k \in DOMAIN cis |-> cis[k].initiative])]

\* The loop has no exception handler: when the work on the cycle at position
\* raises_at raises (0: none does), the rows of the cycles before it have
\* been merged and the loop is left.
CycleMetricsRows(cyc, iss, bp, t, raises_at) ==
    LET last == IF raises_at = 0 THEN Len(cyc) ELSE raises_at - 1
    IN  [c \in 1..last |-> CycleMetricsRow(cyc[c], iss, bp, t)]

_calculate_cycle_metrics(tbl, cyc, iss, bp, t, raises_at) ==
    InsertAll(tbl, CycleMetricsRows(cyc, iss, bp, t, raises_at))

----------------------------------------------------------------------------
(* _calculate_user_metrics *)

UserCompleted(iss, cycle_id, user_id) ==
    SelectSeq(CycleIssues(iss, cycle_id),
              LAMBDA i : i.assignee_id = user_id /\ i.completed_at # NULL)

\* cycle.capacities of the user, in rowid order; next(..., None) takes the first
UserCapacities(caps, cycle_id, user_id) ==
    SelectSeq(caps, LAMBDA c : c.cycle_id = cycle_id /\ c.user_id = user_id)

\* points_completed / capacity.capacity_points if capacity.capacity_points
\* else 0
CapacityUtilization(points_completed, capacity_points) ==
    IF capacity_points # 0 THEN Rat(points_completed, capacity_points)
    ELSE Rat(0, 1)

\* the ratio of a user without actual hours taken as 0
EfficiencyRatioZeroDefault(total_ideal, total_actual) ==
    IF total_actual # 0 THEN Rat(total_ideal, total_actual) ELSE Rat(0, 1)

\* total_ideal / total_actual if total_actual else 1.0
EfficiencyRatio(total_ideal, total_actual) ==
    IF total_actual # 0 THEN Rat(total_ideal, total_actual) ELSE Rat(1, 1)

UserMetricsRow(user_id, cycle_id, iss, capacity) ==
    LET completed_issues == UserCompleted(iss, cycle_id, user_id)
        cycle_times == CycleTimes(completed_issues)
        points_completed ==
            SumSeq([k \in DOMAIN completed_issues |-> Estimate(completed_issues[k])])
        total_ideal ==
            SumSeq([k \in DOMAIN completed_issues |-> IdealHours(completed_issues[k])])
        total_actual ==
            SumSeq([k \in DOMAIN completed_issues |-> ActualHours(completed_issues[k])])
    IN  [user_id |-> user_id,
         cycle_id |-> cycle_id,
         story_points_completed |-> points_completed,
         avg_cycle_time |-> AvgHours(cycle_times),
         velocity |-> points_completed,
         capacity_utilization |->
             CapacityUtilization(points_completed, capacity.capacity_points),
         efficiency_ratio |-> EfficiencyRatio(total_ideal, total_actual)]

\* the rows merged for one (user, cycle) pair: none or one
UserCycleRows(user_id, cycle_id, iss, caps) ==
    IF UserCompleted(iss, cycle_id, user_id) = <<>> THEN <<>>
    ELSE IF UserCapacities(caps, cycle_id, user_id) = <<>> THEN <<>>
    ELSE <<UserMetricsRow(user_id, cycle_id, iss,
                          Head(UserCapacities(caps, cycle_id, user_id)))>>

UserMetricsRows(usr, cyc, iss, caps) ==
    Flatten([u \in DOMAIN usr |->
        Flatten([c \in DOMAIN cyc |->
            UserCycleRows(usr[u].id, cyc[c].id, iss, caps)])])

_calculate_user_metrics(tbl, usr, cyc, iss, caps) ==
    InsertAll(tbl, UserMetricsRows(usr, cyc, iss, caps))

----------------------------------------------------------------------------
(* The pipeline: LinearMetricsClient on one store *)

MaxRuns == 2      \* runs of an operation that insert rows into one table

UserIds == {"u1", "u2"}
CycleIds == {"c1", "c2"}

CycleOne == [id |-> "c1", start_date |-> DayLen, end_date |-> 2 * DayLen]
CycleTwo == [id |-> "c2", start_date |-> 2 * DayLen, end_date |-> 6 * DayLen]

\* histories of an issue the tracker may answer with
Histories ==
    {<<>>,
     <<[fromState |-> "started", toState |-> "blocked", createdAt |-> DayLen + 600]>>,
     <<[fromState |-> "started", toState |-> "blocked", createdAt |-> DayLen + 600],
       [fromState |-> "blocked", toState |-> "started", createdAt |-> DayLen + 2400]>>}

IssueOneData ==
    [id : {"i1"}, estimate : {NULL, 2},
     created_at : {DayLen \div 2},
     started_at : {NULL, DayLen}, completed_at : {NULL, DayLen + 1800},
     cycle_id : {"c1"}, assignee_id : {"u1"},
     team_id : {"tA"}, team_name : {"A"},
     project_id : {NoName}, project_name : {NoName}, initiative : {NoName},
     history : Histories]

IssueTwoData ==
    {d \in [id : {"i2"}, estimate : {3},
            created_at : {DayLen \div 2},
            started_at : {2 * DayLen}, completed_at : {NULL, 2 * DayLen + 1800},
            cycle_id : CycleIds, assignee_id : UserIds,
            team_id : {"tA", "tB"}, team_name : {"A", "B"},
            project_id : {NoName}, project_name : {NoName}, initiative : {NoName},
            history : {<<>>}] :
        d.team_id = "tA" <=> d.team_name = "A"}

RemoteStates ==
    [users : {<<"u1", "u2">>},
     cycles : {<<CycleOne, CycleTwo>>},
     members : {<<"u1">>},
     issues : {<<a, b>> : a \in IssueOneData, b \in IssueTwoData}]

Nows == {2 * DayLen + 1800, 6 * DayLen}

Outcome(op, raised, failed_cycle) ==
    [op |-> op, raised |-> raised, failed_cycle |-> failed_cycle]

\* rows can be inserted by one more run
RunsLeft(tbl, rows) == Len(tbl) + Len(rows) <= MaxRuns * Len(rows)

\* LinearMetricsClient.__init__: init_db(force_recreate=True) drops and
\* recreates every table of the schema
NewClient ==
    /\ users' = <<>> /\ cycles' = <<>> /\ issues' = <<>> /\ capacities' = <<>>
    /\ blocked_periods' = <<>>
    /\ daily_metrics' = <<>> /\ cycle_metrics' = <<>> /\ user_metrics' = <<>>
    /\ forecasts' = <<>>
    /\ result' = Outcome("__init__", FALSE, NoName)
    /\ UNCHANGED <<remote, now>>

SyncDailyMetrics ==
    /\ RunsLeft(daily_metrics, DailyRows(cycles, issues, blocked_periods, now))
    /\ daily_metrics' =
           sync_daily_metrics(daily_metrics, cycles, issues, blocked_periods, now)
    /\ result' = Outcome("sync_daily_metrics", FALSE, NoName)
    /\ UNCHANGED <<remote, rawVars, blocked_periods, cycle_metrics,
                   user_metrics, forecasts, now>>

\* calculate_metrics: _calculate_cycle_metrics, then _calculate_user_metrics
\* unless the former raised
CalculateMetrics(raises_at) ==
    /\ raises_at <= Len(cycles)
    /\ RunsLeft(cycle_metrics,
                CycleMetricsRows(cycles, issues, blocked_periods, now, 0))
    /\ RunsLeft(user_metrics, UserMetricsRows(users, cycles, issues, capacities))
    /\ cycle_metrics' = _calculate_cycle_metrics(cycle_metrics, cycles, issues,
                                                 blocked_periods, now, raises_at)
    /\ user_metrics' =
           IF raises_at = 0
           THEN _calculate_user_metrics(user_metrics, users, cycles, issues,
                                        capacities)
           ELSE user_metrics
    /\ result' = IF raises_at = 0
                 THEN Outcome("calculate_metrics", FALSE, NoName)
                 ELSE Outcome("calculate_metrics", TRUE, cycles[raises_at].id)
    /\ UNCHANGED <<remote, rawVars, blocked_periods, daily_metrics,
                   forecasts, now>>

\* sync_data with a failing test_connection raises before any table is touched
SyncDataNoConnection ==
    /\ result' = Outcome("sync_data", TRUE, NoName)
    /\ UNCHANGED <<remote, rawVars, blocked_periods, derivedVars, forecasts, now>>

\* sync_data: sync_users, sync_cycles, sync_issues, sync_daily_metrics,
\* calculate_metrics, in this order on the same session
SyncData(raises_at) ==
    LET usr == sync_users(users, remote)
        cyc == sync_cycles(cycles, remote)
        caps == InsertAll(capacities, CapacityRows(remote))
        iss == sync_issues(issues, remote)
        bp == sync_issue_histories(blocked_periods, remote.issues)
    IN  /\ raises_at <= Len(cyc)
        /\ RunsLeft(capacities, CapacityRows(remote))
        /\ RunsLeft(daily_metrics, DailyRows(cyc, iss, bp, now))
        /\ RunsLeft(cycle_metrics, CycleMetricsRows(cyc, iss, bp, now, 0))
        /\ RunsLeft(user_metrics, UserMetricsRows(usr, cyc, iss, caps))
        /\ users' = usr /\ cycles' = cyc /\ capacities' = caps /\ issues' = iss
        /\ blocked_periods' = bp
        /\ daily_metrics' = sync_daily_metrics(daily_metrics, cyc, iss, bp, now)
        /\ cycle_metrics' =
               _calculate_cycle_metrics(cycle_metrics, cyc, iss, bp, now, raises_at)
        /\ user_metrics' =
               IF raises_at = 0
               THEN _calculate_user_metrics(user_metrics, usr, cyc, iss, caps)
               ELSE user_metrics
        /\ result' = IF raises_at = 0
                     THEN Outcome("sync_data", FALSE, NoName)
                     ELSE Outcome("sync_data", TRUE, cyc[raises_at].id)
        /\ UNCHANGED <<remote, forecasts, now>>

Init ==
    /\ remote \in RemoteStates
    /\ users = <<>> /\ cycles = <<>> /\ issues = <<>> /\ capacities = <<>>
    /\ blocked_periods = <<>>
    /\ daily_metrics = <<>> /\ cycle_metrics = <<>> /\ user_metrics = <<>>
    /\ forecasts = <<>>
    /\ now \in Nows
    /\ result = NoResult

Next ==
    \/ NewClient
    \/ SyncDataNoConnection
    \/ \E raises_at \in 0..Cardinality(CycleIds) : SyncData(raises_at)
    \/ SyncDailyMetrics
    \/ \E raises_at \in 0..Cardinality(CycleIds) : CalculateMetrics(raises_at)

Spec == Init /\ [][Next]_vars

----------------------------------------------------------------------------
(* Doubles that are not finite: every finite number of the model lies      *)
(* strictly between NegInf and PosInf                                       *)

PosInf == 1073741824
NegInf == 0 - PosInf
NaN == PosInf + 1

IsFinite(x) == x # NaN /\ x # PosInf /\ x # NegInf

----------------------------------------------------------------------------
(* forecasting.py: calculate_completion_distribution *)

\* a velocity near the top of the range of a double
HugeVelocity == 1000000

\* np.log(v) is kept exact as the exponents of v over the generators:
\* ln v is the sum of Ln(v)[g] * ln g. The velocities of the model are
\* HugeVelocity or products of the other generators.
Generators == {2, 3, 5, 7, HugeVelocity}

RECURSIVE Exponent(_, _)
Exponent(v, g) == IF v % g = 0 THEN 1 + Exponent(v \div g, g) ELSE 0

Ln(v) ==
    [g \in Generators |->
        IF v = HugeVelocity THEN (IF g = HugeVelocity THEN 1 ELSE 0)
        ELSE IF g = HugeVelocity THEN 0 ELSE Exponent(v, g)]

\* log_velocities.mean()
LogMean(vs) ==
    [g \in Generators |->
        Rat(SumSeq([k \in DOMAIN vs |-> Ln(vs[k])[g]]), Len(vs))]

\* log_velocities.std() of a pandas Series, the sample deviation (ddof = 1),
\* kept as its square: the coefficients of ln g * ln h
LogStdSquared(vs) ==
    LET n == Len(vs)
        S(g) == SumSeq([k \in DOMAIN vs |-> Ln(vs[k])[g]])
    IN  [p \in Generators \X Generators |->
            Rat(SumSeq([k \in DOMAIN vs |->
                           (n * Ln(vs[k])[p[1]] - S(p[1]))
                               * (n * Ln(vs[k])[p[2]] - S(p[2]))]),
                n * n * (n - 1))]

\* (np.log(10.0), np.log(2.0))
DefaultDistribution ==
    [mean |-> [g \in Generators |-> IF g \in {2, 5} THEN <<1, 1>> ELSE <<0, 1>>],
     std_squared |-> [p \in Generators \X Generators |->
                         IF p = <<2, 2>> THEN <<1, 1>> ELSE <<0, 1>>]]

Velocities(cm) == [k \in DOMAIN cm |-> cm[k].velocity]

\* dropna(), then velocities[velocities > 0]
Usable(velocities) == SelectSeq(velocities, LAMBDA v : v # NaN /\ v > 0)

TooFewUpToTwo(velocities) == Len(velocities) <= 2

TooFew(velocities) == Len(velocities) < 2

\* the log of an infinite velocity is infinite: the mean is infinite and the
\* deviation is NaN
FitIsNaN(velocities) == \E k \in DOMAIN velocities : velocities[k] = PosInf

calculate_completion_distribution(cm) ==
    LET velocities == Usable(Velocities(cm))
    IN  IF TooFew(velocities) THEN DefaultDistribution
        ELSE IF FitIsNaN(velocities) THEN DefaultDistribution
        ELSE [mean |-> LogMean(velocities),
              std_squared |-> LogStdSquared(velocities)]

CalculateCompletionDistribution ==
    /\ result' = [op |-> "calculate_completion_distribution",
                  distribution |-> calculate_completion_distribution(cycle_metrics)]
    /\ UNCHANGED <<remote, rawVars, blocked_periods, derivedVars, forecasts, now>>

----------------------------------------------------------------------------
(* np.random.lognormal(mu, sigma): exp of a normal draw, in doubles *)

Degenerate(dist) ==
    \A p \in Generators \X Generators : dist.std_squared[p] = <<0, 1>>

\* the fitted logs spread beyond the exponent range of a double
Wide(dist) == dist.std_squared[<<HugeVelocity, HugeVelocity>>] # <<0, 1>>

RECURSIVE Power(_, _)
Power(g, e) == IF e = 0 THEN 1 ELSE g * Power(g, e - 1)

\* exp(mu) of a mean with whole exponents
Exp(mean) ==
    Power(2, mean[2][1]) * Power(3, mean[3][1]) * Power(5, mean[5][1])
        * Power(7, mean[7][1]) * Power(HugeVelocity, mean[HugeVelocity][1])

\* With sigma = 0 every draw is exp(mu); otherwise a draw is a positive
\* double, or, when exp underflows or overflows, 0.0 or +inf (PosInf).
\* the samples among those given that np.random.lognormal can draw from the
\* distribution fitted to the stored cycle metrics
Lognormal(cm, samples) ==
    LET dist == calculate_completion_distribution(cm)
        degenerate == Degenerate(dist)
        wide == Wide(dist)
        rate == IF degenerate THEN Exp(dist.mean) ELSE 0
    IN  {s \in samples :
            \A k \in DOMAIN s :
                IF degenerate THEN s[k] = rate
                ELSE IF wide THEN s[k] >= 0
                ELSE s[k] > 0 /\ s[k] # PosInf}

----------------------------------------------------------------------------
(* forecasting.py: simulate_completion_time *)

MaxForecasts == 2      \* rows of monte_carlo_forecasts explored
MaxDays == 1000        \* datetime.max lies MaxDays days after the origin

NanDays == 30
PosInfDays == 365
NegInfDays == 7
DefaultExpectedDays == 30

\* a day count (a float of days) is kept in ticks; the targets and sampled
\* rates of the model make every quotient below a whole number of ticks
Days(n) == n * DayLen

\* int(days): the whole days of a day count, truncated towards zero
IntDays(ticks) ==
    IF ticks >= 0 THEN ticks \div DayLen ELSE 0 - ((0 - ticks) \div DayLen)

\* now + timedelta(days=...) beyond datetime.max raises OverflowError
DateOverflow(t) == t > Days(MaxDays)

RECURSIVE Insert(_, _)
Insert(x, sorted) ==
    IF sorted = <<>> THEN <<x>>
    ELSE IF x <= Head(sorted) THEN <<x>> \o sorted
         ELSE <<Head(sorted)>> \o Insert(x, Tail(sorted))

RECURSIVE Sort(_)
Sort(s) == IF s = <<>> THEN <<>> ELSE Insert(Head(s), Sort(Tail(s)))

\* the releases of numpy differ in how np.percentile interpolates next to an
\* infinite value: a * (1 - t) + b * t ("weights"), or a + (b - a) * t for
\* t < 0.5 and b - (b - a) * (1 - t) from there on ("lerp")
Builds == {"weights", "lerp"}

\* the interpolation between the neighbours a <= b at fraction frac / 100
Lerp(a, b, frac, numpy) ==
    IF IsFinite(a) /\ IsFinite(b) THEN a + (frac * (b - a)) \div 100
    ELSE IF frac = 0 THEN NaN                       \* 0 * inf
    ELSE IF numpy = "weights"
         THEN (IF a = NegInf THEN NegInf ELSE PosInf)
    ELSE IF a = b THEN NaN                          \* inf - inf
    ELSE IF frac < 50
         THEN (IF a = NegInf THEN NaN ELSE PosInf)  \* a + inf
         ELSE (IF b = PosInf THEN NaN ELSE NegInf)  \* b - inf

\* np.percentile(a, q), linear interpolation between the closest ranks;
\* NaN when the sample holds a NaN
Percentile(a, q, numpy) ==
    LET sorted == Sort(a)
        pos == q * (Len(a) - 1)
        lo == pos \div 100 + 1
        hi == IF lo < Len(a) THEN lo + 1 ELSE lo
    IN  IF \E k \in DOMAIN a : a[k] = NaN THEN NaN
        ELSE Lerp(sorted[lo], sorted[hi], pos % 100, numpy)

Mean(a) == SumSeq(a) \div Len(a)

SeqMin(a) == Min({a[k] : k \in DOMAIN a})
SeqMax(a) == Max({a[k] : k \in DOMAIN a})

\* story_points / rate of doubles, a day count; the rate 0.0 gives an
\* infinity or NaN, the rate +inf gives 0
FloatDiv(story_points, rate) ==
    IF rate = 0
    THEN (IF story_points > 0 THEN PosInf
          ELSE IF story_points < 0 THEN NegInf ELSE NaN)
    ELSE IF rate = PosInf THEN 0
    ELSE Days(story_points) \div rate

CompletionTimes(story_points, completion_rates) ==
    [k \in DOMAIN completion_rates |->
        FloatDiv(story_points, completion_rates[k])]

\* np.nan_to_num(completion_times, nan=30.0, posinf=365.0, neginf=7.0)
NanToNum(completion_times) ==
    [k \in DOMAIN completion_times |->
        IF completion_times[k] = NaN THEN Days(NanDays)
        ELSE IF completion_times[k] = PosInf THEN Days(PosInfDays)
        ELSE IF completion_times[k] = NegInf THEN Days(NegInfDays)
        ELSE completion_times[k]]

\* the mean of the sample after nan_to_num, or the default
ExpectedDays(completion_times) ==
    LET mean == Mean(NanToNum(completion_times))
    IN  IF mean <= 0 THEN Days(DefaultExpectedDays) ELSE mean

\* the percentile of the sample before nan_to_num; one that is NaN or not
\* positive is replaced by expected_days
ConfidenceInterval(completion_times, q, numpy) ==
    LET p == Percentile(completion_times, q, numpy)
    IN  IF p = NaN THEN ExpectedDays(completion_times)
        ELSE IF p <= 0 THEN ExpectedDays(completion_times)
        ELSE p

DefaultLevels == <<50, 80, 95>>

\* f'confidence_{int(level*100)}' of the levels of the model, in percent
ConfidenceKey ==
    (25 :> "confidence_25") @@ (50 :> "confidence_50")
        @@ (80 :> "confidence_80") @@ (90 :> "confidence_90")
        @@ (95 :> "confidence_95")

ConfidenceIntervals(completion_times, confidence_levels, numpy) ==
    [key \in {ConfidenceKey[confidence_levels[k]] : k \in DOMAIN confidence_levels} |->
        LET q == CHOOSE q \in DOMAIN ConfidenceKey :
                     /\ ConfidenceKey[q] = key
                     /\ \E k \in DOMAIN confidence_levels : confidence_levels[k] = q
        IN  ConfidenceInterval(completion_times, q, numpy)]

ForecastRow(story_points, completion_times, confidence_intervals, t) ==
    [simulation_date |-> t,
     story_points |-> story_points,
     confidence_50 |-> confidence_intervals["confidence_50"],
     confidence_80 |-> confidence_intervals["confidence_80"],
     confidence_95 |-> confidence_intervals["confidence_95"],
     min_completion_date |->
         t + Days(IntDays(SeqMin(NanToNum(completion_times)))),
     max_completion_date |->
         t + Days(IntDays(SeqMax(NanToNum(completion_times)))),
     expected_completion_date |->
         t + Days(IntDays(ExpectedDays(completion_times)))]

\* The exception caught and printed by the try block, NoName when the row is
\* stored: the constructor raises KeyError when a default level was not
\* requested and OverflowError when a date leaves the calendar; add and
\* commit raise when write_ok is FALSE.
StoreError(completion_times, confidence_intervals, t, write_ok) ==
    IF ~({"confidence_50", "confidence_80", "confidence_95"}
            \subseteq DOMAIN confidence_intervals)
    THEN "KeyError"
    ELSE IF \/ DateOverflow(t + Days(IntDays(SeqMin(NanToNum(completion_times)))))
            \/ DateOverflow(t + Days(IntDays(SeqMax(NanToNum(completion_times)))))
    THEN "OverflowError"
    ELSE IF ~write_ok THEN "SQLAlchemyError"
    ELSE NoName

\* a failed write leaves the caller without the figures
SimulationResultLostOnFailure(story_points, completion_times, confidence_levels, confidence_intervals, printed, t) ==
    [op |-> "simulate_completion_time",
     raised |-> FALSE,
     printed |-> printed,
     confidence_levels |-> confidence_levels,
     story_points |-> story_points,
     expected_days |->
         IF printed = NoName THEN ExpectedDays(completion_times) ELSE NULL,
     expected_completion_date |->
         t + Days(IntDays(ExpectedDays(completion_times))),
     confidence_intervals |-> confidence_intervals,
     min_days |-> SeqMin(NanToNum(completion_times)),
     max_days |-> SeqMax(NanToNum(completion_times)),
     simulation_count |-> Len(completion_times)]

\* the dictionary returned, with the levels asked for and what was printed
SimulationResult(story_points, completion_times, confidence_levels, confidence_intervals, printed, t) ==
    [op |-> "simulate_completion_time",
     raised |-> FALSE,
     printed |-> printed,
     confidence_levels |-> confidence_levels,
     story_points |-> story_points,
     expected_days |-> ExpectedDays(completion_times),
     expected_completion_date |->
         t + Days(IntDays(ExpectedDays(completion_times))),
     confidence_intervals |-> confidence_intervals,
     min_days |-> SeqMin(NanToNum(completion_times)),
     max_days |-> SeqMax(NanToNum(completion_times)),
     simulation_count |-> Len(completion_times)]

\* expected_completion is computed outside the try block
SimulationRaises(completion_times, t) ==
    DateOverflow(t + Days(IntDays(ExpectedDays(completion_times))))

\* simulate_completion_time; completion_rates are the draws of the batches,
\* numpy the release that computes the percentiles, write_ok whether db.add
\* and db.commit go through (a failure in the try block is caught and printed)
SimulateCompletionTime(story_points, completion_rates, confidence_levels, numpy, write_ok) ==
    LET completion_times == CompletionTimes(story_points, completion_rates)
        confidence_intervals ==
            ConfidenceIntervals(completion_times, confidence_levels, numpy)
        printed == StoreError(completion_times, confidence_intervals, now,
                              write_ok)
    IN  /\ Len(forecasts) < MaxForecasts
        /\ completion_rates \in Lognormal(cycle_metrics, {completion_rates})
        /\ IF SimulationRaises(completion_times, now)
           THEN /\ forecasts' = forecasts
                /\ result' = [op |-> "simulate_completion_time", raised |-> TRUE]
           ELSE /\ forecasts' =
                      IF printed # NoName THEN forecasts
                      ELSE Append(forecasts,
                                  ForecastRow(story_points, completion_times,
                                              confidence_intervals, now))
                /\ result' = SimulationResult(story_points, completion_times,
                                              confidence_levels,
                                              confidence_intervals, printed, now)
        /\ UNCHANGED <<remote, rawVars, blocked_periods, derivedVars, now>>

----------------------------------------------------------------------------
(* forecasting.py: analyze_historical_accuracy *)

InsufficientDataUpToTwo(fc) == Len(fc) <= 2

InsufficientData(fc) == Len(fc) < 2

ActualCompletionLatest(cm, forecast) ==
    LET selected == {k \in DOMAIN cm :
                        cm[k].total_story_points >= forecast.story_points}
    IN  IF selected = {} THEN NULL
        ELSE Max({cm[k].end_date : k \in selected})

\* cycle_metrics[total_story_points >= story_points]['end_date'].min();
\* NULL (NaT) when no row is selected
ActualCompletion(cm, forecast) ==
    LET selected == {k \in DOMAIN cm :
                        cm[k].total_story_points >= forecast.story_points}
    IN  IF selected = {} THEN NULL
        ELSE Min({cm[k].end_date : k \in selected})

\* (actual_completion - forecast_date).days
Difference(cm, forecast) ==
    (ActualCompletion(cm, forecast) - forecast.expected_completion_date)
        \div DayLen

Matched(cm, forecast) == ActualCompletion(cm, forecast) # NULL

\* is the forecast counted by the hit counter of the confidence level
Within(cm, forecast, confidence) ==
    /\ Matched(cm, forecast)
    /\ ActualCompletion(cm, forecast)
           <= forecast.expected_completion_date + confidence

\* a hit counted for every selected cycle instead of the earliest one
HitCountPerCycle(fc, cm, level) ==
    Cardinality({<<k, c>> \in (DOMAIN fc) \X (DOMAIN cm) :
                    /\ cm[c].total_story_points >= fc[k].story_points
                    /\ cm[c].end_date
                          <= fc[k].expected_completion_date + fc[k][level]})

HitCount(fc, cm, level) ==
    Cardinality({k \in DOMAIN fc : Within(cm, fc[k], fc[k][level])})

\* the divisor of the sums and hit counters
NForecasts(fc, cm) == Len(fc)

analyze_historical_accuracy(fc, cm) ==
    IF InsufficientData(fc)
    THEN [op |-> "analyze_historical_accuracy",
          accuracy |-> NULL,
          message |-> "Not enough historical forecast data for accuracy analysis"]
    ELSE LET diffs == [k \in DOMAIN fc |->
                          IF Matched(cm, fc[k]) THEN Difference(cm, fc[k]) ELSE 0]
             n_forecasts == NForecasts(fc, cm)
         IN  [op |-> "analyze_historical_accuracy",
              forecast_bias |-> Rat(SumSeq(diffs), n_forecasts),
              mean_absolute_error |->
                  Rat(SumSeq([k \in DOMAIN diffs |-> Abs(diffs[k])]), n_forecasts),
              within_50_confidence |->
                  Rat(100 * HitCount(fc, cm, "confidence_50"), n_forecasts),
              within_80_confidence |->
                  Rat(100 * HitCount(fc, cm, "confidence_80"), n_forecasts),
              within_95_confidence |->
                  Rat(100 * HitCount(fc, cm, "confidence_95"), n_forecasts)]

AnalyzeHistoricalAccuracy ==
    /\ result' = analyze_historical_accuracy(forecasts, cycle_metrics)
    /\ UNCHANGED <<remote, rawVars, blocked_periods, derivedVars, forecasts, now>>

----------------------------------------------------------------------------
(* The forecast engine and the accuracy tracker on the store of the pipeline *)

Targets == {0, 3, 4}

\* n_simulations of a call, and the velocities np.random.lognormal may draw
\* (points per day)
SimulationCounts == {1, 2}
Rates == {1, 2}

Samples == UNION {[1..n -> Rates] : n \in SimulationCounts}

ForecastRemotes ==
    {r \in RemoteStates :
        /\ r.issues[1].estimate = 2
        /\ r.issues[1].started_at # NULL /\ r.issues[1].completed_at # NULL
        /\ r.issues[1].history = <<>>
        /\ r.issues[2].completed_at # NULL
        /\ r.issues[2].assignee_id = "u1" /\ r.issues[2].team_name = "A"}

InitForecast ==
    /\ remote \in ForecastRemotes
    /\ users = <<>> /\ cycles = <<>> /\ issues = <<>> /\ capacities = <<>>
    /\ blocked_periods = <<>>
    /\ daily_metrics = <<>> /\ cycle_metrics = <<>> /\ user_metrics = <<>>
    /\ forecasts = <<>>
    /\ now \in Nows
    /\ result = NoResult

NextForecast ==
    \/ NewClient
    \/ SyncData(0)
    \/ \E story_points \in Targets,
          completion_rates \in Lognormal(cycle_metrics, Samples),
          write_ok \in BOOLEAN :
          \* the samples are finite: the release of numpy makes no difference
          SimulateCompletionTime(story_points, completion_rates, DefaultLevels,
                                 "lerp", write_ok)
    \/ AnalyzeHistoricalAccuracy

SpecForecast == InitForecast /\ [][NextForecast]_vars

----------------------------------------------------------------------------
(* calculate_completion_distribution on the frames of a few velocities *)

MaxCycles == 3      \* rows of the frame of cycle metrics

\* None (read as NaN), a negative, zero, positive and an infinite velocity
VelocityValues == {NaN, 0 - 2, 0, 2, 5, 10, PosInf}

VelocityRow(v) == [cycle_id |-> "c1", velocity |-> v]

VelocityFrames ==
    UNION {[1..n -> {VelocityRow(v) : v \in VelocityValues}] : n \in 0..MaxCycles}

InitDistribution ==
    /\ remote = EmptyRemote
    /\ users = <<>> /\ cycles = <<>> /\ issues = <<>> /\ capacities = <<>>
    /\ blocked_periods = <<>>
    /\ daily_metrics = <<>> /\ user_metrics = <<>>
    /\ cycle_metrics \in VelocityFrames
    /\ forecasts = <<>>
    /\ now = DayLen
    /\ result = NoResult

NextDistribution == CalculateCompletionDistribution

SpecDistribution == InitDistribution /\ [][NextDistribution]_vars

----------------------------------------------------------------------------
(* simulate_completion_time, one run on each store of the pipeline *)

\* n_simulations of a call
SimCounts == {1, 4, 6}

\* the draws: 0.0 and +inf where exp underflows or overflows
SimRates == {0, 1, 6, PosInf}

\* The percentiles, the mean, the minimum and the maximum do not depend on
\* the order of the draws: the samples are taken in ascending order.
SimSamples ==
    UNION {{s \in [1..n -> SimRates] : \A k \in 1..(n - 1) : s[k] <= s[k + 1]} :
              n \in SimCounts}

SimTargets == {0 - 3, 0, 6, 2 * MaxDays}

LevelLists == {DefaultLevels, <<90>>, <<25, 50, 80, 95>>}

\* a tracker whose second cycle completes one issue of a huge estimate
HugeRemotes ==
    {[r EXCEPT !.issues[2].estimate = HugeVelocity] :
        r \in {q \in ForecastRemotes : q.issues[2].cycle_id = "c2"}}

InitSimulate ==
    /\ remote \in ForecastRemotes \cup HugeRemotes
    /\ users = <<>> /\ cycles = <<>> /\ issues = <<>> /\ capacities = <<>>
    /\ blocked_periods = <<>>
    /\ daily_metrics = <<>> /\ cycle_metrics = <<>> /\ user_metrics = <<>>
    /\ forecasts = <<>>
    /\ now \in Nows
    /\ result = NoResult

NextSimulate ==
    \/ NewClient
    \/ SyncData(0)
    \/ /\ forecasts = <<>>
       /\ result.op # "simulate_completion_time"
       /\ \E story_points \in SimTargets,
             completion_rates \in Lognormal(cycle_metrics, SimSamples),
             confidence_levels \in LevelLists, numpy \in Builds,
             write_ok \in BOOLEAN :
             SimulateCompletionTime(story_points, completion_rates,
                                    confidence_levels, numpy, write_ok)

SpecSimulate == InitSimulate /\ [][NextSimulate]_vars

----------------------------------------------------------------------------
(* The derived metrics of the pipeline, without failing cycles *)

\* now before the second cycle starts, within it, and after it has ended
MetricNows == {DayLen + 1800, 2 * DayLen + 1800, 6 * DayLen}

MetricRemotes == {r \in RemoteStates : r.issues[2].assignee_id = "u1"}

InitMetrics ==
    /\ remote \in MetricRemotes
    /\ users = <<>> /\ cycles = <<>> /\ issues = <<>> /\ capacities = <<>>
    /\ blocked_periods = <<>>
    /\ daily_metrics = <<>> /\ cycle_metrics = <<>> /\ user_metrics = <<>>
    /\ forecasts = <<>>
    /\ now \in MetricNows
    /\ result = NoResult

NextMetrics ==
    \/ NewClient
    \/ SyncData(0)
    \/ SyncDailyMetrics
    \/ CalculateMetrics(0)

SpecMetrics == InitMetrics /\ [][NextMetrics]_vars

----------------------------------------------------------------------------
(* _calculate_user_metrics over stores whose issues carry hours and whose  *)
(* capacity rows carry any number of points                                 *)

HourValues == {NULL, 2, 3}
CapacityPointValues == {NULL, 5, DefaultCapacityPoints}

StoredIssues(id) ==
    [id : {id}, estimate : {NULL, 2},
     ideal_hours : HourValues, actual_hours : HourValues,
     created_at : {NULL, DayLen \div 2},
     started_at : {NULL, DayLen}, completed_at : {DayLen + 1800},
     cycle_id : {"c1"}, assignee_id : {"u1"},
     team_id : {"tA"}, team_name : {"A"},
     project_id : {NoName}, project_name : {NoName}, initiative : {NoName}]

StoredCapacities ==
    [cycle_id : {"c1"}, user_id : {"u1"},
     capacity_hours : {DefaultCapacityHours},
     capacity_points : CapacityPointValues]

InitUserMetrics ==
    /\ remote = EmptyRemote
    /\ users = <<[id |-> "u1"]>>
    /\ cycles = <<CycleOne>>
    /\ issues \in {<<a, b>> : a \in StoredIssues("i1"), b \in StoredIssues("i2")}
    /\ capacities \in {<<c>> : c \in StoredCapacities}
    /\ blocked_periods = <<>>
    /\ daily_metrics = <<>> /\ cycle_metrics = <<>> /\ user_metrics = <<>>
    /\ forecasts = <<>>
    /\ now = 2 * DayLen
    /\ result = NoResult

NextUserMetrics == CalculateMetrics(0)

SpecUserMetrics == InitUserMetrics /\ [][NextUserMetrics]_vars

----------------------------------------------------------------------------
(* get_velocity_trend *)

\* rolling(window=3, min_periods=1)
Window == 3
MinPeriods == 1

\* the rows of the window that ends at row k
WindowOf(rows, k) == SubSeq(rows, Max({1, k - Window + 1}), k)

\* a window that yields a value only once it holds three rows
RollingVelocityOfFullWindow(rows, k) ==
    LET w == WindowOf(rows, k)
    IN  IF Len(w) < Window THEN <<0, 0>>
        ELSE Rat(SumSeq([j \in DOMAIN w |-> w[j].velocity]), Len(w))

\* .mean() of the window; 0/0 stands for NaN
RollingVelocity(rows, k) ==
    LET w == WindowOf(rows, k)
    IN  IF Len(w) < MinPeriods THEN <<0, 0>>
        ELSE Rat(SumSeq([j \in DOMAIN w |-> w[j].velocity]), Len(w))

\* stats.linregress(range(len(x)), x)[0]: the least-squares slope of the
\* window over 0, 1, 2; the quotient 0/0 (NaN) for a window of one row
VelocityTrend(rows, k) ==
    LET w == WindowOf(rows, k)
    IN  IF Len(w) = 1 THEN <<0, 0>>
        ELSE IF Len(w) = 2 THEN Rat(w[2].velocity - w[1].velocity, 1)
        ELSE Rat(w[3].velocity - w[1].velocity, 2)

\* sort_values('start_date'): the orders of the rows that ascend by start
\* date; rows of one start date in any order
SortValues(rows) ==
    {[k \in DOMAIN rows |-> rows[p[k]]] : p \in
        {p \in Permutations(DOMAIN rows) :
            \A j, k \in DOMAIN rows :
                j < k => rows[p[j]].start_date <= rows[p[k]].start_date}}

get_velocity_trend(sorted) ==
    IF Len(sorted) < 2 THEN <<>>
    ELSE [k \in DOMAIN sorted |->
            [start_date       |-> sorted[k].start_date,
             velocity         |-> sorted[k].velocity,
             rolling_velocity |-> RollingVelocity(sorted, k),
             velocity_trend   |-> VelocityTrend(sorted, k)]]

GetVelocityTrend ==
    /\ \E sorted \in SortValues(cycle_metrics) :
           result' = [op |-> "get_velocity_trend",
                      trend |-> get_velocity_trend(sorted)]
    /\ UNCHANGED <<remote, rawVars, blocked_periods, derivedVars, forecasts, now>>

TrendRows ==
    [cycle_id : {"c1"},
     start_date : {DayLen, 2 * DayLen, 3 * DayLen},
     velocity : {5, 9}]

TrendFrames == UNION {[1..n -> TrendRows] : n \in 0..(MaxCycles + 1)}

InitTrend ==
    /\ remote = EmptyRemote
    /\ users = <<>> /\ cycles = <<>> /\ issues = <<>> /\ capacities = <<>>
    /\ blocked_periods = <<>>
    /\ daily_metrics = <<>> /\ user_metrics = <<>>
    /\ cycle_metrics \in TrendFrames
    /\ forecasts = <<>>
    /\ now = DayLen
    /\ result = NoResult

NextTrend == GetVelocityTrend

SpecTrend == InitTrend /\ [][NextTrend]_vars

----------------------------------------------------------------------------
(* simulate_completion_time: the batch loop *)

\* a batch that is not cut at the end of the sample
BatchEndUnclipped(i, batch_size, n_simulations) == i + batch_size

\* batch_end = min(i + batch_size, n_simulations)
BatchEnd(i, batch_size, n_simulations) == Min({i + batch_size, n_simulations})

\* The state of the loop: the sample, how often each slot was assigned, how
\* many rates were drawn and how many batches were run.
LoopStart(n_simulations) ==
    [completion_times |-> [k \in 1..n_simulations |-> 0],
     assigned         |-> [k \in 1..n_simulations |-> 0],
     drawn            |-> 0,
     batches          |-> 0]

\* one pass of the body for the batch that starts at the 0-based slot i;
\* stream holds the rates in the order in which np.random.lognormal
\* delivers them
Batch(loop, i, story_points, n_simulations, batch_size, stream) ==
    LET batch_end == BatchEnd(i, batch_size, n_simulations)
        batch_size_actual == batch_end - i
        completion_rates ==
            [k \in 1..batch_size_actual |->
                IF loop.drawn + k \in DOMAIN stream THEN stream[loop.drawn + k]
                ELSE 1]
        slots == {k \in 1..n_simulations : i < k /\ k <= batch_end}
    IN  [completion_times |->
             [k \in 1..n_simulations |->
                 IF k \in slots
                 THEN FloatDiv(story_points, completion_rates[k - i])
                 ELSE loop.completion_times[k]],
         assigned |->
             [k \in 1..n_simulations |->
                 IF k \in slots THEN loop.assigned[k] + 1 ELSE loop.assigned[k]],
         drawn   |-> loop.drawn + batch_size_actual,
         batches |-> loop.batches + 1]

\* for i in range(0, n_simulations, batch_size)
RECURSIVE BatchLoop(_, _, _, _, _, _)
BatchLoop(loop, i, story_points, n_simulations, batch_size, stream) ==
    IF i >= n_simulations THEN loop
    ELSE BatchLoop(Batch(loop, i, story_points, n_simulations, batch_size, stream),
                   i + batch_size, story_points, n_simulations, batch_size,
                   stream)

\* the figures computed from the sample
Statistics(completion_times) ==
    [expected_days |-> ExpectedDays(completion_times),
     confidence_intervals |->
         ConfidenceIntervals(completion_times, DefaultLevels, "lerp"),
     min_days |-> SeqMin(NanToNum(completion_times)),
     max_days |-> SeqMax(NanToNum(completion_times))]

\* lines 66-78 of a call, and the figures of lines 81-97
RunBatches(story_points, n_simulations, batch_size, stream) ==
    LET loop == BatchLoop(LoopStart(n_simulations), 0, story_points,
                          n_simulations, batch_size, stream)
    IN  /\ result' = [op |-> "batch_loop",
                      story_points |-> story_points,
                      n_simulations |-> n_simulations,
                      batch_size |-> batch_size,
                      stream |-> stream,
                      loop |-> loop,
                      statistics |-> Statistics(loop.completion_times)]
        /\ UNCHANGED <<remote, rawVars, blocked_periods, derivedVars,
                       forecasts, now>>

BatchCounts == 1..4
BatchSizes == 1..5
BatchRates == {1, 2, 3}
BatchTargets == {0, 6}

InitBatches ==
    /\ remote = EmptyRemote
    /\ users = <<>> /\ cycles = <<>> /\ issues = <<>> /\ capacities = <<>>
    /\ blocked_periods = <<>>
    /\ daily_metrics = <<>> /\ cycle_metrics = <<>> /\ user_metrics = <<>>
    /\ forecasts = <<>>
    /\ now = DayLen
    /\ result = NoResult

\* one call on each store
NextBatches ==
    /\ result.op # "batch_loop"
    /\ \E story_points \in BatchTargets, n_simulations \in BatchCounts,
          batch_size \in BatchSizes :
           \E stream \in [1..n_simulations -> BatchRates] :
               RunBatches(story_points, n_simulations, batch_size, stream)

SpecBatches == InitBatches /\ [][NextBatches]_vars

----------------------------------------------------------------------------
(* main.py: sync_data *)

\* sync_data of main.py: init_db(force_recreate=True) and the constructor of
\* LinearMetricsClient each drop and recreate every table; then the
\* connection is tested, and the process exits when the test fails;
\* otherwise client.sync_data() fills the empty store
MainSyncData(connected) ==
    LET usr == sync_users(<<>>, remote)
        cyc == sync_cycles(<<>>, remote)
        caps == InsertAll(<<>>, CapacityRows(remote))
        iss == sync_issues(<<>>, remote)
        bp == sync_issue_histories(<<>>, remote.issues)
    IN  /\ forecasts' = <<>>
        /\ IF connected
           THEN /\ users' = usr /\ cycles' = cyc /\ capacities' = caps
                /\ issues' = iss
                /\ blocked_periods' = bp
                /\ daily_metrics' = sync_daily_metrics(<<>>, cyc, iss, bp, now)
                /\ cycle_metrics' =
                       _calculate_cycle_metrics(<<>>, cyc, iss, bp, now, 0)
                /\ user_metrics' =
                       _calculate_user_metrics(<<>>, usr, cyc, iss, caps)
           ELSE /\ users' = <<>> /\ cycles' = <<>> /\ capacities' = <<>>
                /\ issues' = <<>>
                /\ blocked_periods' = <<>>
                /\ daily_metrics' = <<>> /\ cycle_metrics' = <<>>
                /\ user_metrics' = <<>>
        /\ result' = Outcome("main.sync_data", ~connected, NoName)
        /\ UNCHANGED <<remote, now>>

InitMain == InitForecast

NextMain ==
    \/ \E connected \in BOOLEAN : MainSyncData(connected)
    \/ SyncDataNoConnection
    \/ \E story_points \in Targets,
          completion_rates \in Lognormal(cycle_metrics, Samples) :
          SimulateCompletionTime(story_points, completion_rates, DefaultLevels,
                                 "lerp", TRUE)

SpecMain == InitMain /\ [][NextMain]_vars

----------------------------------------------------------------------------
(* dashboard.py: Forecast Accuracy Analysis *)

\* accuracy_metrics.get(key): None for a key the dictionary does not have
Get(accuracy_metrics, key) ==
    IF key \in DOMAIN accuracy_metrics THEN accuracy_metrics[key] ELSE NULL

\* What the section puts on the page for the returned dictionary: the info
\* message when get('accuracy') is None, the three figures otherwise.
AccuracyDisplay(accuracy_metrics) ==
    IF Get(accuracy_metrics, "accuracy") = NULL
    THEN [shown |-> "info",
          text  |-> "Not enough historical data for accuracy analysis. Need at least 2 completed cycles."]
    ELSE [shown |-> "metrics",
          forecast_bias        |-> accuracy_metrics.forecast_bias,
          mean_absolute_error  |-> accuracy_metrics.mean_absolute_error,
          within_80_confidence |-> accuracy_metrics.within_80_confidence]

\* the section of one script run; filtered_empty: the date filter left no
\* CycleMetrics row
ForecastAccuracySection(filtered_empty) ==
    /\ cycle_metrics = <<>> => filtered_empty
    /\ result' =
          IF filtered_empty
          THEN [op |-> "forecast_accuracy_section",
                display |-> [shown |-> "warning",
                             text |-> "No historical data available for accuracy analysis."]]
          ELSE [op |-> "forecast_accuracy_section",
                accuracy_metrics |->
                    analyze_historical_accuracy(forecasts, cycle_metrics),
                display |->
                    AccuracyDisplay(
                        analyze_historical_accuracy(forecasts, cycle_metrics))]
    /\ UNCHANGED <<remote, rawVars, blocked_periods, derivedVars, forecasts, now>>

NextDashboard ==
    \/ SyncData(0)
    \/ \E story_points \in Targets,
          completion_rates \in Lognormal(cycle_metrics, Samples) :
          SimulateCompletionTime(story_points, completion_rates, DefaultLevels,
                                 "lerp", TRUE)
    \/ \E filtered_empty \in BOOLEAN : ForecastAccuracySection(filtered_empty)

SpecDashboard == InitForecast /\ [][NextDashboard]_vars

----------------------------------------------------------------------------
(* The daily series of one cycle over stores whose issues carry ideal hours *)

\* completion within the first day of the cycle, on a later day of it, and
\* after its end
SeriesIssues(id) ==
    [id : {id}, estimate : {NULL, 2},
     ideal_hours : {NULL, 3}, actual_hours : {NULL},
     created_at : {DayLen},
     started_at : {2 * DayLen},
     completed_at : {NULL, 2 * DayLen + 1800, 4 * DayLen, 7 * DayLen},
     cycle_id : {"c2"}, assignee_id : {"u1"},
     team_id : {"tA"}, team_name : {"A"},
     project_id : {NoName}, project_name : {NoName}, initiative : {NoName}]

SeriesNows == {4 * DayLen + 1800, 8 * DayLen}

InitSeries ==
    /\ now \in SeriesNows
    /\ remote = EmptyRemote
    /\ users = <<[id |-> "u1"]>>
    /\ cycles = <<CycleTwo>>
    /\ issues \in {iss \in {<<a, b>> : a \in SeriesIssues("i1"), b \in SeriesIssues("i2")} :
                      \A k \in DOMAIN iss : iss[k].completed_at <= now}
    /\ capacities = <<>>
    /\ blocked_periods = <<>>
    /\ daily_metrics = <<>> /\ cycle_metrics = <<>> /\ user_metrics = <<>>
    /\ forecasts = <<>>
    /\ result = NoResult

NextSeries ==
    \/ SyncDailyMetrics
    \/ CalculateMetrics(0)

SpecSeries == InitSeries /\ [][NextSeries]_vars

----------------------------------------------------------------------------
(* C3: an issue has at most one BlockedPeriod whose end_time is unset *)
AtMostOneOpenPeriod ==
    \A i \in IssueIds : Cardinality(OpenPeriods(blocked_periods, i)) <= 1

(* C4: a transition out of a blocked-typed state closes the open period of *)
(* the issue with the latest start_time, and a transition into a           *)
(* blocked-typed state opens a new period starting at the transition time  *)
ClosesLatestOpensNew ==
    /\ \A k \in DOMAIN blocked_periods :
          (blocked_periods[k].end_time = NULL
             /\ k \in DOMAIN blocked_periods'
             /\ blocked_periods'[k].end_time # NULL)
          => \A j \in OpenPeriods(blocked_periods, blocked_periods[k].issue_id) :
                 blocked_periods[j].start_time <= blocked_periods[k].start_time
    /\ (result'.op = "sync_issues"
          /\ result'.node.fromState # NoState
          /\ result'.node.toState = "blocked")
       => /\ Len(blocked_periods') = Len(blocked_periods) + 1
          /\ blocked_periods'[Len(blocked_periods')] =
                [issue_id   |-> result'.issue_id,
                 start_time |-> result'.node.createdAt,
                 end_time   |-> NULL]

ClosesMostRecentOpenPeriod == [][ClosesLatestOpensNew]_vars

----------------------------------------------------------------------------
HasCycle(cycle_id) == \E k \in DOMAIN cycles : cycles[k].id = cycle_id

MetricsComputed ==
    result.op \in {"calculate_metrics", "sync_data"} /\ ~result.raised

(* C1: however often sync_daily_metrics and calculate_metrics have run, the *)
(* store holds one CycleMetrics row per cycle id, at most one UserMetrics   *)
(* row per (user, cycle) and one DailyMetrics row per (cycle, day): a       *)
(* re-run never adds a second row for a natural key                         *)
OneRecordPerNaturalKey ==
    /\ \A j, k \in DOMAIN cycle_metrics :
          cycle_metrics[j].cycle_id = cycle_metrics[k].cycle_id => j = k
    /\ \A j, k \in DOMAIN user_metrics :
          (user_metrics[j].user_id = user_metrics[k].user_id
             /\ user_metrics[j].cycle_id = user_metrics[k].cycle_id) => j = k
    /\ \A j, k \in DOMAIN daily_metrics :
          (daily_metrics[j].cycle_id = daily_metrics[k].cycle_id
             /\ daily_metrics[j].date = daily_metrics[k].date) => j = k
    /\ MetricsComputed =>
          \A c \in DOMAIN cycles : \E k \in DOMAIN cycle_metrics :
              cycle_metrics[k].cycle_id = cycles[c].id

(* C5: after _calculate_user_metrics, a (user, cycle) pair has a UserMetrics *)
(* row exactly when the user completed an issue in the cycle; without a      *)
(* Capacity row of the pair the row's capacity_utilization is 0              *)
UserMetricsForEveryCompletedPair ==
    MetricsComputed =>
        \A u \in UserIds, c \in CycleIds :
            LET rows == {k \in DOMAIN user_metrics :
                            user_metrics[k].user_id = u
                            /\ user_metrics[k].cycle_id = c}
            IN  IF HasCycle(c) /\ UserCompleted(issues, c, u) # <<>>
                THEN /\ rows # {}
                     /\ UserCapacities(capacities, c, u) = <<>> =>
                           \A k \in rows :
                               user_metrics[k].capacity_utilization = Rat(0, 1)
                ELSE rows = {}

(* C6: when computing one cycle's metrics raised, every other cycle still *)
(* has its CycleMetrics row                                               *)
OtherCyclesStillComputed ==
    (result.op \in {"calculate_metrics", "sync_data"}
        /\ result.raised /\ result.failed_cycle # NoName) =>
        \A c \in DOMAIN cycles :
            cycles[c].id # result.failed_cycle =>
                \E k \in DOMAIN cycle_metrics :
                    cycle_metrics[k].cycle_id = cycles[c].id

----------------------------------------------------------------------------
(* C2: a stored Forecast row is never modified or removed by a later *)
(* operation, and no operation adds more than one                    *)
StoredForecastsKept ==
    /\ Len(forecasts') >= Len(forecasts)
    /\ Len(forecasts') <= Len(forecasts) + 1
    /\ \A k \in DOMAIN forecasts : forecasts'[k] = forecasts[k]

ForecastsAppendOnly == [][StoredForecastsKept]_vars

Scorecard ==
    /\ result.op = "analyze_historical_accuracy"
    /\ "forecast_bias" \in DOMAIN result

MatchedForecasts ==
    {k \in DOMAIN forecasts : Matched(cycle_metrics, forecasts[k])}

MatchedDifferences ==
    [k \in DOMAIN forecasts |->
        IF k \in MatchedForecasts
        THEN Difference(cycle_metrics, forecasts[k]) ELSE 0]

(* C7: with 2 or more stored forecasts the bias and the mean absolute error *)
(* are the sums over the number of matched forecasts and the within values  *)
(* the hit counts as percentages of the matched forecasts                   *)
AveragesOverMatchedForecasts ==
    (Scorecard /\ MatchedForecasts # {}) =>
        LET m == Cardinality(MatchedForecasts)
        IN  /\ result.forecast_bias = Rat(SumSeq(MatchedDifferences), m)
            /\ result.mean_absolute_error =
                   Rat(SumSeq([k \in DOMAIN forecasts |->
                                  Abs(MatchedDifferences[k])]), m)
            /\ \A level \in {"50", "80", "95"} :
                   result["within_" \o level \o "_confidence"] =
                       Rat(100 * HitCount(forecasts, cycle_metrics,
                                          "confidence_" \o level), m)

InPercentRange(r) == 0 <= r[1] /\ r[1] <= 100 * r[2]

(* C9: each within_*_confidence of a scorecard lies in 0..100 *)
CoverageWithinPercentRange ==
    Scorecard =>
        /\ InPercentRange(result.within_50_confidence)
        /\ InPercentRange(result.within_80_confidence)
        /\ InPercentRange(result.within_95_confidence)

\* every forecast is matched, one misses its 80% interval and one meets it
CoverageStrictlyBetween ==
    /\ Scorecard
    /\ MatchedForecasts = DOMAIN forecasts
    /\ result.within_80_confidence[1] > 0
    /\ result.within_80_confidence[1] < 100 * result.within_80_confidence[2]

\* the end dates of the rows whose own total covers the target
SufficientEndDates(target) ==
    {cycle_metrics[k].end_date : k \in
        {j \in DOMAIN cycle_metrics :
            cycle_metrics[j].total_story_points >= target}}

\* what the forecast adds to the running sums with realized date d
Contribution(forecast, d) ==
    [difference |-> (d - forecast.expected_completion_date) \div DayLen,
     hit_50 |-> IF d <= forecast.expected_completion_date + forecast.confidence_50
                THEN 1 ELSE 0,
     hit_80 |-> IF d <= forecast.expected_completion_date + forecast.confidence_80
                THEN 1 ELSE 0,
     hit_95 |-> IF d <= forecast.expected_completion_date + forecast.confidence_95
                THEN 1 ELSE 0]

NoContribution == [difference |-> 0, hit_50 |-> 0, hit_80 |-> 0, hit_95 |-> 0]

\* the scorecard is made of the sums of these contributions, over some
\* divisor n
ScorecardOfContributions(contribs) ==
    \E n \in 1..Len(forecasts) :
        /\ result.forecast_bias =
               Rat(SumSeq([k \in DOMAIN contribs |-> contribs[k].difference]), n)
        /\ result.mean_absolute_error =
               Rat(SumSeq([k \in DOMAIN contribs |-> Abs(contribs[k].difference)]), n)
        /\ result.within_50_confidence =
               Rat(100 * SumSeq([k \in DOMAIN contribs |-> contribs[k].hit_50]), n)
        /\ result.within_80_confidence =
               Rat(100 * SumSeq([k \in DOMAIN contribs |-> contribs[k].hit_80]), n)
        /\ result.within_95_confidence =
               Rat(100 * SumSeq([k \in DOMAIN contribs |-> contribs[k].hit_95]), n)

\* the end dates of the completed cycles whose cumulative total story
\* points, counted over the cycles in end-date order, covers the target
CumulativeEndDates(target) ==
    LET cycleRows == {k \in DOMAIN cycle_metrics :
                         \A j \in DOMAIN cycle_metrics :
                             cycle_metrics[j].cycle_id = cycle_metrics[k].cycle_id
                                 => k <= j}
        Cumulative(k) ==
            LET upTo == {j \in cycleRows :
                            cycle_metrics[j].end_date <= cycle_metrics[k].end_date}
                idx == [j \in 1..Len(cycle_metrics) |->
                           IF j \in upTo THEN cycle_metrics[j].total_story_points
                           ELSE 0]
            IN  SumSeq(idx)
    IN  {cycle_metrics[k].end_date : k \in
            {j \in cycleRows : /\ cycle_metrics[j].end_date <= now
                               /\ Cumulative(j) >= target}}

----------------------------------------------------------------------------
\* the positions of the velocities that are neither missing nor <= 0
UsablePositions ==
    {k \in DOMAIN cycle_metrics :
        cycle_metrics[k].velocity # NaN /\ cycle_metrics[k].velocity > 0}

UsableVelocities ==
    SelectSeq(Velocities(cycle_metrics), LAMBDA v : v # NaN /\ v > 0)

(* C14: calculate_completion_distribution returns the default parameters    *)
(* (ln 10, ln 2) when fewer than 2 velocities are left after the missing,   *)
(* zero and negative ones are dropped, or when the fit is NaN; otherwise it *)
(* returns the mean and the deviation of the logs of the velocities left    *)
DistributionOfUsableVelocities ==
    result.op = "calculate_completion_distribution"
    => IF \/ Cardinality(UsablePositions) < 2
          \/ \E k \in UsablePositions : cycle_metrics[k].velocity = PosInf
       THEN result.distribution = DefaultDistribution
       ELSE /\ result.distribution.mean = LogMean(UsableVelocities)
            /\ result.distribution.std_squared = LogStdSquared(UsableVelocities)

\* a fit of the two usable velocities of a frame whose third velocity is
\* missing, zero, negative or infinite
FittedFromTwoOfThree ==
    /\ result.op = "calculate_completion_distribution"
    /\ Cardinality(UsablePositions) = 2
    /\ Len(cycle_metrics) = 3
    /\ result.distribution # DefaultDistribution
    /\ result.distribution.mean[2] # <<0, 1>>


----------------------------------------------------------------------------
\* simulate_completion_time has returned its dictionary
Simulated == result.op = "simulate_completion_time" /\ ~result.raised

DefaultKeys == {"confidence_50", "confidence_80", "confidence_95"}

(* C11: in every result returned for the default confidence levels,         *)
(* confidence_50 <= confidence_80 <= confidence_95, also after a percentile *)
(* that was NaN or not positive has been replaced by expected_days          *)
PercentilesOrdered ==
    (Simulated /\ result.confidence_levels = DefaultLevels)
    => /\ result.confidence_intervals["confidence_50"]
              <= result.confidence_intervals["confidence_80"]
       /\ result.confidence_intervals["confidence_80"]
              <= result.confidence_intervals["confidence_95"]

(* C12: every confidence interval that simulate_completion_time returns or *)
(* stores is finite and positive, and expected_days, min_days and max_days  *)
(* of the result are finite                                                 *)
NoNonFiniteNumber ==
    /\ Simulated
       => /\ \A key \in DOMAIN result.confidence_intervals :
                 /\ IsFinite(result.confidence_intervals[key])
                 /\ result.confidence_intervals[key] > 0
          /\ IsFinite(result.expected_days)
          /\ IsFinite(result.min_days)
          /\ IsFinite(result.max_days)
    /\ \A k \in DOMAIN forecasts :
          \A key \in DefaultKeys :
              IsFinite(forecasts[k][key]) /\ forecasts[k][key] > 0

(* C13: simulate_completion_time does not raise, whatever the stored        *)
(* velocities and the target are, and the expected_days it returns is       *)
(* greater than 0                                                           *)
SimulationNeverRaises ==
    result.op = "simulate_completion_time"
    => ~result.raised /\ result.expected_days > 0


\* the keys of the levels asked for
RequestedKeys ==
    {ConfidenceKey[result.confidence_levels[k]] :
        k \in DOMAIN result.confidence_levels}

(* C15: for any non-empty list of confidence levels, the result has one     *)
(* named percentile field per level asked for and one Forecast record is    *)
(* stored for the run (add and commit going through, dates in range)        *)
FieldPerLevelAndStored ==
    (Simulated /\ result.printed \notin {"SQLAlchemyError", "OverflowError"})
    => /\ DOMAIN result.confidence_intervals = RequestedKeys
       /\ Len(forecasts) = 1
       /\ forecasts[1].story_points = result.story_points

\* does the call with these draws and this release return the result,
\* when its write goes through
ReturnedWhenStored(completion_rates, numpy) ==
    LET completion_times ==
            CompletionTimes(result.story_points, completion_rates)
        confidence_intervals ==
            ConfidenceIntervals(completion_times, result.confidence_levels, numpy)
    IN  /\ StoreError(completion_times, confidence_intervals, now, TRUE) = NoName
        /\ ~SimulationRaises(completion_times, now)
        /\ result.expected_days = ExpectedDays(completion_times)
        /\ result.expected_completion_date =
               now + Days(IntDays(ExpectedDays(completion_times)))
        /\ result.confidence_intervals = confidence_intervals
        /\ result.min_days = SeqMin(NanToNum(completion_times))
        /\ result.max_days = SeqMax(NanToNum(completion_times))
        /\ result.simulation_count = Len(completion_times)

(* C16: when add or commit raises while the Forecast record is stored,      *)
(* simulate_completion_time does not raise and returns the result           *)
(* (expected_days, expected completion date, confidence intervals, min and  *)
(* max days) that the same run returns when the write goes through          *)
FailedWriteReturnsSameResult ==
    (Simulated /\ result.printed = "SQLAlchemyError")
    => \E completion_rates \in Lognormal(cycle_metrics, SimSamples),
          numpy \in Builds :
           ReturnedWhenStored(completion_rates, numpy)

\* a run with the default levels whose commit failed: nothing is stored and
\* the figures are returned
ReturnedAfterFailedWrite ==
    /\ Simulated
    /\ result.printed = "SQLAlchemyError"
    /\ result.confidence_levels = DefaultLevels
    /\ result.story_points = 6
    /\ result.expected_days > 0
    /\ forecasts = <<>>


----------------------------------------------------------------------------
\* the rows a table received last
LastRows(tbl, n) == SubSeq(tbl, Len(tbl) - n + 1, Len(tbl))

\* the CycleMetrics row written last for the cycle at position c
LastCycleMetrics(c) == LastRows(cycle_metrics, Len(cycles))[c]

\* the orders in which the issues can be evaluated
IssueOrders ==
    {[k \in DOMAIN issues |-> issues[p[k]]] : p \in Permutations(DOMAIN issues)}

(* C17: the CycleMetrics record of a cycle is the same for every order in  *)
(* which the issues are evaluated, dominant team, project and initiative    *)
(* included when two values have the same issue count                       *)
CycleMetricsOrderIndependent ==
    MetricsComputed
    => \A c \in DOMAIN cycles : \A iss \in IssueOrders :
           LastCycleMetrics(c)
               = CycleMetricsRow(cycles[c], iss, blocked_periods, now)

\* the issues of the cycle, as a set of positions of the issue table
IssuesOf(cycle_id) == {k \in DOMAIN issues : issues[k].cycle_id = cycle_id}

(* C18: the CycleMetrics record of a cycle without a completed issue has    *)
(* completed_story_points, velocity, throughput, avg_cycle_time,            *)
(* avg_lead_time and avg_blocked_time equal to 0                            *)
NoCompletedIssueGivesZeros ==
    MetricsComputed
    => \A c \in DOMAIN cycles :
           (\A k \in IssuesOf(cycles[c].id) : issues[k].completed_at = NULL)
           => /\ LastCycleMetrics(c).cycle_id = cycles[c].id
              /\ LastCycleMetrics(c).completed_story_points = 0
              /\ LastCycleMetrics(c).velocity = 0
              /\ LastCycleMetrics(c).throughput = 0
              /\ LastCycleMetrics(c).avg_cycle_time = <<0, 1>>
              /\ LastCycleMetrics(c).avg_lead_time = <<0, 1>>
              /\ LastCycleMetrics(c).avg_blocked_time = <<0, 1>>

\* metrics computed for a cycle without issues and for a cycle whose
\* estimated issue is not completed
ZerosForEmptyAndUnfinishedCycle ==
    /\ MetricsComputed
    /\ \E c \in DOMAIN cycles : IssuesOf(cycles[c].id) = {}
    /\ \E c \in DOMAIN cycles :
          /\ IssuesOf(cycles[c].id) # {}
          /\ \A k \in IssuesOf(cycles[c].id) : issues[k].completed_at = NULL
          /\ LastCycleMetrics(c).total_story_points > 0
          /\ LastCycleMetrics(c).velocity = 0

----------------------------------------------------------------------------
\* sync_daily_metrics has run to its end
DailySynced ==
    \/ result.op = "sync_daily_metrics"
    \/ result.op = "sync_data" /\ ~result.raised

\* the days from the start of the cycle, one day apart, up to min(end, now)
RangeDays(cycle) ==
    LET last == Min({cycle.end_date, now})
    IN  {cycle.start_date + k * DayLen :
            k \in 0..((last - cycle.start_date) \div DayLen)}

RangeSize == SumSeq([c \in DOMAIN cycles |-> Cardinality(RangeDays(cycles[c]))])

\* the DailyMetrics rows of the last run
LastDailyMetrics == LastRows(daily_metrics, RangeSize)

(* C19: a run of sync_daily_metrics ends and leaves, for every cycle,       *)
(* exactly one DailyMetrics record for each day from the cycle start, one   *)
(* day apart, up to min(cycle end, now), and no record for another day:     *)
(* none for a cycle that starts after now                                   *)
OneDailyRecordPerDayOfRange ==
    DailySynced
    => /\ RangeSize > 0 => Len(daily_metrics) % RangeSize = 0
       /\ RangeSize = 0 => daily_metrics = <<>>
       /\ \A c \in DOMAIN cycles : \A d \in RangeDays(cycles[c]) :
              Cardinality({k \in DOMAIN LastDailyMetrics :
                              /\ LastDailyMetrics[k].cycle_id = cycles[c].id
                              /\ LastDailyMetrics[k].date = d}) = 1
       /\ \A k \in DOMAIN LastDailyMetrics :
              \E c \in DOMAIN cycles :
                  /\ LastDailyMetrics[k].cycle_id = cycles[c].id
                  /\ LastDailyMetrics[k].date \in RangeDays(cycles[c])

\* a run at a time inside one cycle and before the start of another: one
\* record for each day of the first up to now, none for the second
NoRecordForCycleAfterNow ==
    /\ DailySynced
    /\ \E c \in DOMAIN cycles :
          /\ cycles[c].start_date <= now /\ now < cycles[c].end_date
          /\ \E k \in DOMAIN LastDailyMetrics :
                /\ LastDailyMetrics[k].cycle_id = cycles[c].id
                /\ LastDailyMetrics[k].date = cycles[c].start_date
    /\ \E c \in DOMAIN cycles :
          /\ cycles[c].start_date > now
          /\ \A k \in DOMAIN daily_metrics :
                daily_metrics[k].cycle_id # cycles[c].id

----------------------------------------------------------------------------
\* is the issue at position k blocked at the time d
BlockedAt(k, d) ==
    \E b \in DOMAIN blocked_periods :
        /\ blocked_periods[b].issue_id = issues[k].id
        /\ blocked_periods[b].start_time <= d
        /\ \/ blocked_periods[b].end_time = NULL
           \/ blocked_periods[b].end_time > d

\* the sum of f over the positions of S
RECURSIVE SumOver(_, _)
SumOver(S, f) ==
    IF S = {} THEN 0
    ELSE LET k == CHOOSE k \in S : TRUE IN f[k] + SumOver(S \ {k}, f)

\* the figures of the day d of the cycle, from the issues and the blocked
\* periods alone
DayInIsolation(cycle_id, d) ==
    LET cis == IssuesOf(cycle_id)
        open == {k \in cis : issues[k].completed_at = NULL
                                \/ issues[k].completed_at > d}
        done == {k \in cis : /\ issues[k].completed_at # NULL
                              /\ issues[k].completed_at \div DayLen <= d \div DayLen}
    IN  [cycle_id |-> cycle_id,
         date |-> d,
         remaining_hours |-> SumOver(open, [k \in open |-> issues[k].ideal_hours]),
         completed_points |-> SumOver(done, [k \in done |-> issues[k].estimate]),
         wip_count |-> Cardinality({k \in open : /\ issues[k].started_at # NULL
                                                  /\ issues[k].started_at <= d}),
         blocked_items |-> Cardinality({k \in cis : BlockedAt(k, d)})]

(* C20: every DailyMetrics record of a full-range run equals the record     *)
(* computed for its day in isolation from the issues and blocked periods    *)
DailyRecordIsDayInIsolation ==
    DailySynced
    => \A k \in DOMAIN LastDailyMetrics :
           LastDailyMetrics[k]
               = DayInIsolation(LastDailyMetrics[k].cycle_id,
                                LastDailyMetrics[k].date)

\* a run whose records of one cycle differ between two days
FiguresChangeBetweenDays ==
    /\ DailySynced
    /\ \E j, k \in DOMAIN LastDailyMetrics :
          /\ LastDailyMetrics[j].cycle_id = LastDailyMetrics[k].cycle_id
          /\ LastDailyMetrics[j].date < LastDailyMetrics[k].date
          /\ LastDailyMetrics[j].completed_points
                 < LastDailyMetrics[k].completed_points
          /\ LastDailyMetrics[j].wip_count # LastDailyMetrics[k].wip_count

----------------------------------------------------------------------------
\* the completed issues of the user in the cycle, as positions of the table
CompletedOf(user_id, cycle_id) ==
    {k \in IssuesOf(cycle_id) : /\ issues[k].assignee_id = user_id
                                /\ issues[k].completed_at # NULL}

\* the capacity points of the first CycleCapacity row of the user and cycle
CapacityPointsOf(user_id, cycle_id) ==
    LET ks == {k \in DOMAIN capacities : /\ capacities[k].user_id = user_id
                                         /\ capacities[k].cycle_id = cycle_id}
    IN  capacities[Min(ks)].capacity_points

(* C21: no division by zero in _calculate_user_metrics: with capacity      *)
(* points 0 or null the capacity_utilization is 0, with actual hours that   *)
(* sum to 0 the efficiency_ratio is 1; otherwise they are points completed  *)
(* over capacity points and ideal hours over actual hours                   *)
UserRatiosGuarded ==
    MetricsComputed
    => /\ user_metrics # <<>>
       /\ \A m \in DOMAIN user_metrics :
            LET done == CompletedOf(user_metrics[m].user_id,
                                    user_metrics[m].cycle_id)
                points == SumOver(done, [k \in done |-> issues[k].estimate])
                ideal == SumOver(done, [k \in done |-> issues[k].ideal_hours])
                actual == SumOver(done, [k \in done |-> issues[k].actual_hours])
                capacity_points == CapacityPointsOf(user_metrics[m].user_id,
                                                    user_metrics[m].cycle_id)
            IN  /\ capacity_points = 0
                   => user_metrics[m].capacity_utilization = <<0, 1>>
                /\ capacity_points # 0
                   => user_metrics[m].capacity_utilization
                          = Rat(points, capacity_points)
                /\ actual = 0 => user_metrics[m].efficiency_ratio = <<1, 1>>
                /\ actual # 0
                   => user_metrics[m].efficiency_ratio = Rat(ideal, actual)

\* metrics computed for a user who completed points and has ideal hours,
\* without capacity points and without actual hours
RatiosOfZeroCapacityAndZeroActualHours ==
    /\ MetricsComputed
    /\ \E m \in DOMAIN user_metrics :
         LET done == CompletedOf(user_metrics[m].user_id,
                                 user_metrics[m].cycle_id)
         IN  /\ CapacityPointsOf(user_metrics[m].user_id,
                                 user_metrics[m].cycle_id) = 0
             /\ user_metrics[m].story_points_completed > 0
             /\ user_metrics[m].capacity_utilization = <<0, 1>>
             /\ SumOver(done, [k \in done |-> issues[k].ideal_hours]) > 0
             /\ SumOver(done, [k \in done |-> issues[k].actual_hours]) = 0
             /\ user_metrics[m].efficiency_ratio = <<1, 1>>

----------------------------------------------------------------------------
\* get_velocity_trend has returned
TrendReturned == result.op = "get_velocity_trend"

\* the mean of the velocities of the rows j..k of the returned trend
MeanVelocity(j, k) ==
    Rat(SumOver(j..k, [i \in j..k |-> result.trend[i].velocity]), k - j + 1)

(* C22: get_velocity_trend returns nothing for fewer than 2 CycleMetrics    *)
(* records; for 2 or more it returns one row per record, ascending by start *)
(* date, and the rolling_velocity of a row is the mean of the velocities of *)
(* the row and of up to two rows before it: the first row has its own       *)
(* velocity                                                                 *)
TrendRowPerRecordWithRollingMean ==
    TrendReturned
    => /\ Len(cycle_metrics) < 2 => result.trend = <<>>
       /\ Len(cycle_metrics) >= 2
          => /\ Len(result.trend) = Len(cycle_metrics)
             /\ \E p \in Permutations(DOMAIN cycle_metrics) :
                    \A k \in DOMAIN cycle_metrics :
                        /\ result.trend[k].start_date
                               = cycle_metrics[p[k]].start_date
                        /\ result.trend[k].velocity
                               = cycle_metrics[p[k]].velocity
             /\ \A k \in 1..(Len(result.trend) - 1) :
                    result.trend[k].start_date <= result.trend[k + 1].start_date
             /\ result.trend[1].rolling_velocity
                    = <<result.trend[1].velocity, 1>>
             /\ \A k \in DOMAIN result.trend :
                    result.trend[k].rolling_velocity
                        = MeanVelocity(IF k > 2 THEN k - 2 ELSE 1, k)

\* the trend of four records stored out of date order, whose last rolling
\* mean leaves the first velocity out
TrendOfFourUnsortedRecords ==
    /\ TrendReturned
    /\ Len(result.trend) = 4
    /\ \E k \in 1..3 : cycle_metrics[k].start_date > cycle_metrics[k + 1].start_date
    /\ result.trend[1].velocity = 5
    /\ result.trend[1].rolling_velocity = <<5, 1>>
    /\ result.trend[2].rolling_velocity = <<7, 1>>
    /\ result.trend[4].rolling_velocity = <<9, 1>>

----------------------------------------------------------------------------
\* sum(times) / len(times) if times else 0, in hours, of the differences
\* completed_at - from[k] of the issues at the positions S
MeanHoursSince(S, from) ==
    IF S = {} THEN <<0, 1>>
    ELSE Hours(SumOver(S, [k \in S |-> issues[k].completed_at - from[k]]),
               Cardinality(S))

StartedAt == [k \in DOMAIN issues |-> issues[k].started_at]
CreatedAt == [k \in DOMAIN issues |-> issues[k].created_at]

(* C23: avg_cycle_time of a cycle and of a user in a cycle is the mean over *)
(* exactly the completed issues that have started_at, and avg_lead_time of  *)
(* a cycle is the mean over the completed issues that have created_at: an   *)
(* issue without the timestamp is neither counted nor added as zero         *)
AveragesLeaveOutMissingTimestamps ==
    MetricsComputed
    => /\ \A c \in DOMAIN cycles :
            LET done == {k \in IssuesOf(cycles[c].id) :
                            issues[k].completed_at # NULL}
            IN  /\ LastCycleMetrics(c).avg_cycle_time
                       = MeanHoursSince({k \in done : StartedAt[k] # NULL},
                                        StartedAt)
                /\ LastCycleMetrics(c).avg_lead_time
                       = MeanHoursSince({k \in done : CreatedAt[k] # NULL},
                                        CreatedAt)
       /\ \A m \in DOMAIN user_metrics :
            LET done == CompletedOf(user_metrics[m].user_id,
                                    user_metrics[m].cycle_id)
            IN  user_metrics[m].avg_cycle_time
                    = MeanHoursSince({k \in done : StartedAt[k] # NULL},
                                     StartedAt)

\* averages of a cycle with two completed issues of one user, one of them
\* without started_at and one without created_at
AveragesOverOneOfTwoCompletedIssues ==
    /\ MetricsComputed
    /\ \E c \in DOMAIN cycles :
         LET done == {k \in IssuesOf(cycles[c].id) :
                         issues[k].completed_at # NULL}
         IN  /\ Cardinality(done) = 2
             /\ Cardinality({k \in done : StartedAt[k] # NULL}) = 1
             /\ Cardinality({k \in done : CreatedAt[k] # NULL}) = 1
             /\ LastCycleMetrics(c).avg_cycle_time = Hours(1800, 1)
             /\ LastCycleMetrics(c).avg_lead_time = Hours(DayLen, 1)
             /\ \E m \in DOMAIN user_metrics :
                    /\ user_metrics[m].cycle_id = cycles[c].id
                    /\ user_metrics[m].avg_cycle_time = Hours(1800, 1)

----------------------------------------------------------------------------
\* the batch loop has ended
BatchesRun == result.op = "batch_loop"

\* the number of batches of the range: ceil(n_simulations / batch_size)
BatchCount(n_simulations, batch_size) ==
    (n_simulations + batch_size - 1) \div batch_size

(* C24: for n_simulations >= 1 and batch_size >= 1 the batch loop ends,     *)
(* assigns every slot of the sample exactly once and draws n_simulations    *)
(* rates; the figures computed from the sample are those of the draws taken *)
(* in any order, whatever the batch size                                     *)
BatchesFillEverySlotOnce ==
    BatchesRun
    => /\ DOMAIN result.loop.assigned = 1..result.n_simulations
       /\ \A k \in 1..result.n_simulations : result.loop.assigned[k] = 1
       /\ result.loop.drawn = result.n_simulations
       /\ result.loop.batches
              = BatchCount(result.n_simulations, result.batch_size)
       /\ \A k \in 1..result.n_simulations :
              result.loop.completion_times[k]
                  = FloatDiv(result.story_points, result.stream[k])
       /\ \A p \in Permutations(1..result.n_simulations) :
              Statistics([k \in 1..result.n_simulations |->
                             FloatDiv(result.story_points, result.stream[p[k]])])
                  = result.statistics

\* four slots filled by a batch of three and a batch of one, from draws
\* that are not all equal
LastBatchShorterThanBatchSize ==
    /\ BatchesRun
    /\ result.n_simulations = 4 /\ result.batch_size = 3
    /\ result.loop.batches = 2
    /\ result.story_points > 0
    /\ result.stream[1] < result.stream[4]
    /\ result.loop.completion_times[4] < result.loop.completion_times[1]

----------------------------------------------------------------------------
(* C25: every result of simulate_completion_time has                        *)
(* min_days <= expected_days <= max_days, and every stored forecast has     *)
(* min_completion_date <= expected_completion_date <= max_completion_date,  *)
(* for every target, a target of 0 included                                 *)
ExpectedBetweenMinAndMax ==
    /\ Simulated
       => /\ result.min_days <= result.expected_days
          /\ result.expected_days <= result.max_days
    /\ \A k \in DOMAIN forecasts :
          /\ forecasts[k].min_completion_date
                 <= forecasts[k].expected_completion_date
          /\ forecasts[k].expected_completion_date
                 <= forecasts[k].max_completion_date

----------------------------------------------------------------------------
\* the issues of the cycle whose estimate is part of completed_points of the
\* day d: completed on the calendar day of d or before
IncludedInCompletedPoints(cycle_id, d) ==
    {k \in IssuesOf(cycle_id) :
        /\ issues[k].completed_at # NULL
        /\ Date(issues[k].completed_at) <= Date(d)}

(* C26: no DailyMetrics record counts an issue as done and as not done: the *)
(* issues in wip_count and the ideal hours in remaining_hours of a day are  *)
(* those of issues that are not included in completed_points of the day,    *)
(* also when an issue is completed later on the day than the sampling time  *)
DoneIssuesNotInProgress ==
    DailySynced
    => \A r \in DOMAIN daily_metrics :
         LET not_done == IssuesOf(daily_metrics[r].cycle_id)
                            \ IncludedInCompletedPoints(daily_metrics[r].cycle_id,
                                                        daily_metrics[r].date)
         IN  /\ daily_metrics[r].wip_count
                    <= Cardinality({k \in not_done :
                                       /\ issues[k].started_at # NULL
                                       /\ issues[k].started_at
                                              <= daily_metrics[r].date})
             /\ daily_metrics[r].remaining_hours
                    <= SumOver(not_done,
                               [k \in not_done |-> issues[k].ideal_hours])

----------------------------------------------------------------------------
\* a sync has stopped at the failed connection test
StoppedAtConnectionTest(r) ==
    r.op \in {"main.sync_data", "sync_data"} /\ r.raised /\ r.failed_cycle = NoName

FailedConnectionKeepsStore ==
    StoppedAtConnectionTest(result')
    => UNCHANGED <<rawVars, blocked_periods, derivedVars, forecasts>>

(* C27: a sync that stops at a failed connection test, main.sync_data or    *)
(* LinearMetricsClient.sync_data, has deleted or altered no stored raw      *)
(* entity, derived metric or forecast                                       *)
FailedConnectionLeavesStoreUnchanged == [][FailedConnectionKeepsStore]_vars

----------------------------------------------------------------------------
\* the accuracy section has called analyze_historical_accuracy
AccuracyAnalyzed ==
    /\ result.op = "forecast_accuracy_section"
    /\ result.display.shown # "warning"

(* C28: when analyze_historical_accuracy returns a scorecard (2 or more     *)
(* stored forecasts) the accuracy section shows its bias, mean absolute     *)
(* error and within-80% figures; the message about missing data is shown    *)
(* only for the insufficient-data result                                    *)
ScorecardIsShown ==
    AccuracyAnalyzed
    => /\ Len(forecasts) >= 2
          => /\ result.display.shown = "metrics"
             /\ result.display.forecast_bias
                    = result.accuracy_metrics.forecast_bias
             /\ result.display.mean_absolute_error
                    = result.accuracy_metrics.mean_absolute_error
             /\ result.display.within_80_confidence
                    = result.accuracy_metrics.within_80_confidence
       /\ result.display.shown = "info" => Len(forecasts) < 2

----------------------------------------------------------------------------
(* C29: over fixed raw data with non-negative estimates and ideal hours the *)
(* daily series of a cycle is monotone: from a day to a later day           *)
(* completed_points does not decrease and remaining_hours does not          *)
(* increase, and completed_points of a day is at most                       *)
(* completed_story_points of the CycleMetrics record of the cycle           *)
DailySeriesMonotone ==
    /\ \A j, k \in DOMAIN daily_metrics :
          (/\ daily_metrics[j].cycle_id = daily_metrics[k].cycle_id
           /\ daily_metrics[j].date < daily_metrics[k].date)
          => /\ daily_metrics[j].completed_points
                    <= daily_metrics[k].completed_points
             /\ daily_metrics[j].remaining_hours
                    >= daily_metrics[k].remaining_hours
    /\ \A k \in DOMAIN daily_metrics : \A m \in DOMAIN cycle_metrics :
          daily_metrics[k].cycle_id = cycle_metrics[m].cycle_id
          => daily_metrics[k].completed_points
                 <= cycle_metrics[m].completed_story_points

\* a series whose completed points grow and whose remaining hours shrink
\* between two days, and whose last day is below the points of the cycle
SeriesGrowsAndStaysBelowCycle ==
    /\ cycle_metrics # <<>>
    /\ \E j, k \in DOMAIN daily_metrics :
          /\ daily_metrics[j].date < daily_metrics[k].date
          /\ daily_metrics[j].completed_points < daily_metrics[k].completed_points
          /\ daily_metrics[j].remaining_hours > daily_metrics[k].remaining_hours
    /\ \E k \in DOMAIN daily_metrics :
          /\ daily_metrics[k].date = Min({cycles[1].end_date, now})
          /\ daily_metrics[k].completed_points > 0
          /\ daily_metrics[k].completed_points
                 < cycle_metrics[1].completed_story_points

----------------------------------------------------------------------------
(* C30: every BlockedPeriod that sync_issues has closed has                 *)
(* end_time >= start_time, in whatever order the history records of the     *)
(* issue are processed and however many periods of the issue are open       *)
ClosedPeriodsEndAfterStart ==
    \A k \in DOMAIN blocked_periods :
        blocked_periods[k].end_time # NULL
        => blocked_periods[k].end_time >= blocked_periods[k].start_time

=============================================================================
